---- MODULE Spec2Model ----
(***************************************************************************)
(* Model of the JavaScript playground's execution bridge (App.js): the     *)
(* host controller's React state, the per-run closures created by          *)
(* runCode (capturedLogs, iframe, ready, the two window listeners and the  *)
(* two timers), the runner script of the sandboxed iframe, and the window  *)
(* message queues that connect them.                                       *)
(*                                                                         *)
(* JavaScript strings are modelled as sequences of string atoms, so that   *)
(* Array.prototype.join and Error.prototype.toString are computed and not  *)
(* assumed: "a b" is <<"a", " ", "b">>.                                    *)
(***************************************************************************)
EXTENDS Integers, Sequences, FiniteSets, TLC

(***************************************************************************)
(* Bounds of the model                                                     *)
(***************************************************************************)
\* number of times the Run button is pressed
MaxRuns == 2
\* other windows post messages that the result listener appends while the
\* newest run has captured fewer entries than this
MaxLog == 1
\* ... and while its queue holds fewer undispatched messages than this
MaxQueue == 1
\* other windows post to a runner window while its queue holds fewer
\* undispatched messages than this
MaxInbox == 1
\* the bound that takes the place of MaxLog in the specification of the
\* output log, LogSpec
MaxLongLog == 2

(***************************************************************************)
(* Origins and windows                                                     *)
(***************************************************************************)
\* window.location.origin of the host page
HostOrigin == "http://localhost:3000"
\* an origin of some other site
ForeignOrigin == "https://other.example"
\* the serialisation of an opaque origin
OpaqueOrigin == "null"

\* iframe.sandbox = "allow-scripts"  (no allow-same-origin)
SandboxTokens == {"allow-scripts"}

\* the origin of the document loaded in the runner iframe: a sandboxed
\* iframe without allow-same-origin gets an opaque origin
RunnerOrigin ==
    IF "allow-same-origin" \in SandboxTokens THEN HostOrigin ELSE OpaqueOrigin

\* window identities as they appear in event.source: 0 is null, r >= 1 is
\* the contentWindow of run r's iframe, EnvWindow is any other window
NullWindow == 0
EnvWindow == -1

\* window.postMessage(message, targetOrigin) towards a window whose document
\* has origin destOrigin: "*" always delivers, a target origin that does not
\* parse as a URL ("null") throws SyntaxError, otherwise the message is
\* delivered only if the origins match and is silently dropped if not
PostMessageOutcome(targetOrigin, destOrigin) ==
    IF targetOrigin = "*" THEN "deliver"
    ELSE IF targetOrigin = OpaqueOrigin THEN "throw"
    ELSE IF targetOrigin = destOrigin THEN "deliver"
    ELSE "drop"

(***************************************************************************)
(* Strings, faults, source texts                                           *)
(***************************************************************************)
\* mutation of Join: the separator is join's default, a comma
RECURSIVE JoinWithComma(_)
JoinWithComma(args) ==
    IF args = <<>> THEN <<>>
    ELSE IF Len(args) = 1 THEN args[1]
    ELSE args[1] \o <<",">> \o JoinWithComma(Tail(args))

\* Array.prototype.join(" ") over an array of strings
RECURSIVE Join(_)
Join(args) ==
    IF args = <<>> THEN <<>>
    ELSE IF Len(args) = 1 THEN args[1]
    ELSE args[1] \o <<" ">> \o Join(Tail(args))

\* err && err.toString ? err.toString() : String(err)
ErrToString(err) ==
    IF err.name = "null" THEN <<"null">>
    ELSE <<err.name, ": ">> \o err.message

ErrorBoom == [name |-> "Error", message |-> <<"boom">>]
ThrownNull == [name |-> "null", message |-> <<>>]
\* the TypeError of reading .postMessage of a null contentWindow
TypeErrorNull ==
    [name |-> "TypeError",
     message |-> <<"Cannot read properties of null (reading 'postMessage')">>]
\* the SyntaxError of postMessage with an invalid target origin
SyntaxErrorOrigin ==
    [name |-> "SyntaxError",
     message |-> <<"Invalid target origin in a call to 'postMessage'">>]

\* statements of a source text: calls of console.log, console.error and
\* alert with their arguments, and throw
Call(op, args) == [op |-> op, args |-> args, fault |-> ThrownNull]
Throw(fault) == [op |-> "throw", args |-> <<>>, fault |-> fault]

\* greet("World") logs the single argument "Hello, " + name + "!"
DEFAULT_CODE == << Call("log", << <<"Hello, ", "World", "!">> >>) >>
TextTwoLogs == << Call("log", << <<"a">> >>), Call("log", << <<"b">> >>) >>
TextThrows ==
    << Call("log", << <<"a">> >>), Throw(ErrorBoom), Call("log", << <<"b">> >>) >>

\* the source texts the editor can hold in this model
Texts == {DEFAULT_CODE, TextThrows}
\* the payloads other windows post to a runner
RunnerPayloads == {TextTwoLogs}

(***************************************************************************)
(* Messages                                                                *)
(***************************************************************************)
\* event.data of a message to the host window.  obj: the data is a non-null
\* object; hasArgs: data.args is an array
Data(source, type, hasArgs, args) ==
    [obj |-> TRUE, source |-> source, type |-> type,
     hasArgs |-> hasArgs, args |-> args]
NotAnObject ==
    [obj |-> FALSE, source |-> "", type |-> "", hasArgs |-> FALSE, args |-> <<>>]

\* no event: the value of last.ev for the steps that dispatch none
NoEvent == [origin |-> "", src |-> NullWindow, data |-> NotAnObject]

\* what other windows post to the host window: origin, event.source, data
HostInputs ==
    { [origin |-> HostOrigin, src |-> EnvWindow,
       data |-> Data("jsplayground", "log", TRUE, << <<"x">>, <<"y">> >>)],
      [origin |-> HostOrigin, src |-> EnvWindow,
       data |-> Data("jsplayground", "error", TRUE, << <<"e">> >>)],
      [origin |-> HostOrigin, src |-> EnvWindow,
       data |-> Data("jsplayground", "ready", FALSE, <<>>)],
      [origin |-> HostOrigin, src |-> EnvWindow,
       data |-> Data("jsplayground", "log", FALSE, <<>>)],
      [origin |-> HostOrigin, src |-> EnvWindow,
       data |-> Data("webpackHotUpdate", "log", TRUE, << <<"x">> >>)],
      [origin |-> HostOrigin, src |-> EnvWindow,
       data |-> Data("jsplayground", "table", TRUE, << <<"x">> >>)],
      [origin |-> HostOrigin, src |-> EnvWindow, data |-> NotAnObject],
      [origin |-> ForeignOrigin, src |-> EnvWindow,
       data |-> Data("jsplayground", "log", TRUE, << <<"forged">> >>)] }

\* event.data of a message to a runner window
RunData(source, type, payload) ==
    [obj |-> TRUE, source |-> source, type |-> type, payload |-> payload]

\* the origins of the other windows that post to a runner
RunnerInputOrigins == {ForeignOrigin, OpaqueOrigin}

(***************************************************************************)
(* The runner script (srcdoc of the iframe)                                *)
(***************************************************************************)
\* window.top inside the runner: window.top is unforgeable, so the
\* assignment window.top = window has no effect and top stays the host
RunnerTopOrigin == HostOrigin

\* window.location.origin || '*' inside the runner
RunnerTargetOrigin == IF RunnerOrigin = "" THEN "*" ELSE RunnerOrigin

\* eval(event.data.payload) with the shadowed console and alert: the calls
\* of send(type, ...args) it makes, in order; a throw ends the evaluation
\* and the catch clause calls console.error with the fault's string form
RECURSIVE Eval(_)
Eval(payload) ==
    IF payload = <<>> THEN <<>>
    ELSE LET s == Head(payload) IN
         IF s.op = "throw"
         THEN << [type |-> "error", args |-> << ErrToString(s.fault) >>] >>
         ELSE << [type |-> s.op, args |-> s.args] >> \o Eval(Tail(payload))

\* send(type, ...args): the data that reaches window.top, as a sequence of
\* zero or one message (a throwing postMessage is caught and ignored)
send(type, args) ==
    IF PostMessageOutcome(RunnerTargetOrigin, RunnerTopOrigin) = "deliver"
    THEN << Data("jsplayground", type, TRUE, args) >>
    ELSE <<>>

RECURSIVE SendAll(_)
SendAll(calls) ==
    IF calls = <<>> THEN <<>>
    ELSE send(Head(calls).type, Head(calls).args) \o SendAll(Tail(calls))

\* the runner's message listener: does the event pass its two guards
RunnerAccepts(ev) ==
    /\ ev.origin = RunnerOrigin
    /\ ev.data.obj
    /\ ev.data.source = "jsplayground"
    /\ ev.data.type = "run"

\* the runner's message listener: the data it posts to the host window
RunnerListener(ev) ==
    IF RunnerAccepts(ev) THEN SendAll(Eval(ev.data.payload)) ELSE <<>>

\* the last statement of the script: the data of the ready notification
\* that reaches the host window (the postMessage is not guarded: when it
\* throws, the script ends with an uncaught exception inside the iframe)
RunnerReady ==
    IF PostMessageOutcome(RunnerTargetOrigin, RunnerTopOrigin) = "deliver"
    THEN << Data("jsplayground", "ready", FALSE, <<>>) >>
    ELSE <<>>

(***************************************************************************)
(* State                                                                   *)
(***************************************************************************)
VARIABLES
    code,           \* useState(DEFAULT_CODE)
    consoleOutput,  \* useState([])
    error,          \* useState(null)
    runs,           \* the closures of the runCode calls so far, in order
    hostQueue,      \* message events posted to the host window, not yet dispatched
    last            \* history: the step taken last

vars == <<code, consoleOutput, error, runs, hostQueue, last>>

\* setError(null): the empty sequence stands for null
NoError == <<>>

\* the string sendCodeToIframe passes to setError
FailMessage(err) ==
    <<"Failed to communicate with runner iframe (postMessage): ">> \o ErrToString(err)

\* the closure of one runCode call.  payload: the text the closure captured;
\* inDom: the iframe is attached to document.body; loaded: the runner script
\* has run; msgL / readyL: messageHandler / tempReadyHandler is a listener of
\* the window; fallback / teardown: the 30 ms / 200 ms timer is pending;
\* inbox: messages delivered to the runner window, not yet dispatched.
\* History fields: sends counts the contentWindow.postMessage calls that
\* returned, sent holds the payloads they were given, delivered counts the
\* ones that put a message in the runner's queue; logBefore is consoleOutput
\* as it was when runCode was called, kept until the fallback timer of the
\* run has fired
NewRun(text, log) ==
    [payload |-> text, capturedLogs |-> <<>>, inDom |-> TRUE, loaded |-> FALSE,
     msgL |-> TRUE, readyL |-> TRUE, ready |-> FALSE,
     fallback |-> TRUE, teardown |-> TRUE, inbox |-> <<>>,
     sends |-> 0, sent |-> <<>>, delivered |-> 0, logBefore |-> log]

RunIds == 1..Len(runs)

\* iframe.contentWindow as compared with event.source: null once the iframe
\* is detached from the document
ContentWindow(run, r) == IF run.inDom THEN r ELSE NullWindow

\* the step taken last: the operation ("env" for a step of a runner or of
\* another window), the run it belongs to, the event it dispatched, and the
\* runs whose transmission threw during it
Step(op, r, ev, txfail) == [op |-> op, run |-> r, ev |-> ev, txfail |-> txfail]

Init ==
    /\ code = DEFAULT_CODE
    /\ consoleOutput = <<>>
    /\ error = NoError
    /\ runs = <<>>
    /\ hostQueue = <<>>
    /\ last = Step("init", 0, NoEvent, {})

(***************************************************************************)
(* The listeners and helpers of one runCode call.  They work on a record   *)
(* st = [runs, out, err, txfail]: the closures, consoleOutput, error and   *)
(* the runs whose transmission threw during the current task.              *)
(***************************************************************************)
\* mutation of MessageHandlerAccepts: the origin test is left out
MessageHandlerAcceptsAnyOrigin(ev) ==
    /\ ev.data.obj
    /\ ev.data.source = "jsplayground"
    /\ ev.data.type \in {"log", "error", "alert"}

\* mutation of MessageHandlerAccepts: the test of the kind is left out
MessageHandlerAcceptsAnyKind(ev) ==
    /\ ev.origin = HostOrigin
    /\ ev.data.obj
    /\ ev.data.source = "jsplayground"

\* the condition of messageHandler's if statement
MessageHandlerAccepts(ev) ==
    /\ ev.origin = HostOrigin
    /\ ev.data.obj
    /\ ev.data.source = "jsplayground"
    /\ ev.data.type \in {"log", "error", "alert"}

\* the entry messageHandler pushes.  History fields: origin and src of the
\* event it came from, and at, the number of runCode calls made when the
\* event was dispatched
LogEntry(ev, at) ==
    [type |-> ev.data.type, value |-> Join(ev.data.args),
     origin |-> ev.origin, src |-> ev.src, at |-> at]

\* mutation of messageHandler: the entry is put in front (unshift for push)
messageHandlerPrepends(st, r, ev) ==
    IF MessageHandlerAccepts(ev) /\ ev.data.hasArgs
    THEN LET logs == <<LogEntry(ev, Len(st.runs))>> \o st.runs[r].capturedLogs
         IN [st EXCEPT !.runs[r].capturedLogs = logs, !.out = logs]
    ELSE st

\* mutation of messageHandler: an error message is also shown in the banner
messageHandlerErrorToBanner(st, r, ev) ==
    IF MessageHandlerAccepts(ev) /\ ev.data.hasArgs
    THEN LET logs == Append(st.runs[r].capturedLogs, LogEntry(ev, Len(st.runs)))
         IN [st EXCEPT !.runs[r].capturedLogs = logs, !.out = logs,
                       !.err = IF ev.data.type = "error"
                               THEN Join(ev.data.args) ELSE @]
    ELSE st

\* messageHandler of run r.  event.data.args.join throws a TypeError when
\* args is not an array: the catch clause swallows it, before the push
messageHandler(st, r, ev) ==
    IF MessageHandlerAccepts(ev) /\ ev.data.hasArgs
    THEN LET logs == Append(st.runs[r].capturedLogs, LogEntry(ev, Len(st.runs)))
         IN [st EXCEPT !.runs[r].capturedLogs = logs, !.out = logs]
    ELSE st

\* mutation of sendCodeToIframe: the catch clause also empties the output
sendCodeToIframeClearsLog(st, r) ==
    LET run == st.runs[r]
    IN IF ~run.inDom
       THEN [st EXCEPT !.err = FailMessage(TypeErrorNull), !.out = <<>>,
                       !.txfail = @ \cup {r}]
       ELSE [st EXCEPT !.runs[r].sends = @ + 1,
                       !.runs[r].sent = Append(@, run.payload)]

\* sendCodeToIframe of run r
sendCodeToIframe(st, r) ==
    LET run == st.runs[r]
        outcome == PostMessageOutcome(HostOrigin, RunnerOrigin)
        msg == [origin |-> HostOrigin,
                data |-> RunData("jsplayground", "run", run.payload)]
    IN IF ~run.inDom
       THEN [st EXCEPT !.err = FailMessage(TypeErrorNull),
                       !.txfail = @ \cup {r}]
       ELSE IF outcome = "throw"
       THEN [st EXCEPT !.err = FailMessage(SyntaxErrorOrigin),
                       !.txfail = @ \cup {r}]
       ELSE IF outcome = "deliver" /\ run.loaded
       THEN [st EXCEPT !.runs[r].inbox = Append(@, msg),
                       !.runs[r].sends = @ + 1,
                       !.runs[r].sent = Append(@, msg.data.payload),
                       !.runs[r].delivered = @ + 1]
       ELSE [st EXCEPT !.runs[r].sends = @ + 1,
                       !.runs[r].sent = Append(@, msg.data.payload)]

\* the condition of tempReadyHandler's if statement
TempReadyHandlerAccepts(run, r, ev) ==
    /\ ev.src = ContentWindow(run, r)
    /\ ev.origin = HostOrigin
    /\ ev.data.obj
    /\ ev.data.source = "jsplayground"
    /\ ev.data.type = "ready"

\* tempReadyHandler of run r
tempReadyHandler(st, r, ev) ==
    IF TempReadyHandlerAccepts(st.runs[r], r, ev)
    THEN LET s1 == [st EXCEPT !.runs[r].ready = TRUE]
             s2 == sendCodeToIframe(s1, r)
         IN [s2 EXCEPT !.runs[r].readyL = FALSE]
    ELSE st

\* dispatch of one message event to the window's listeners, in the order
\* they were added: messageHandler then tempReadyHandler of each run
RECURSIVE RunListeners(_, _, _)
RunListeners(st, r, ev) ==
    IF r > Len(st.runs) THEN st
    ELSE LET s1 == IF st.runs[r].msgL THEN messageHandler(st, r, ev) ELSE st
             s2 == IF s1.runs[r].readyL THEN tempReadyHandler(s1, r, ev) ELSE s1
         IN RunListeners(s2, r + 1, ev)

HostState == [runs |-> runs, out |-> consoleOutput, err |-> error, txfail |-> {}]

\* the events made of the data a window posts to the host window
RECURSIVE MkEvents(_, _, _)
MkEvents(datas, origin, src) ==
    IF datas = <<>> THEN <<>>
    ELSE << [origin |-> origin, src |-> src, data |-> Head(datas)] >>
         \o MkEvents(Tail(datas), origin, src)

\* detaching an iframe discards its browsing context
Detach(run) == [run EXCEPT !.inDom = FALSE, !.inbox = <<>>]

(***************************************************************************)
(* Host controller operations                                              *)
(***************************************************************************)
\* mutation of handleEditorChange: the runs that have not transmitted yet
\* take the new text as their payload
handleEditorChangeRetargetsRuns(value) ==
    /\ code' = value
    /\ error' = NoError
    /\ runs' = [r \in RunIds |->
                   IF runs[r].fallback
                   THEN [runs[r] EXCEPT !.payload = value] ELSE runs[r]]
    /\ last' = Step("edit", 0, NoEvent, {})
    /\ UNCHANGED <<consoleOutput, hostQueue>>

\* mutation of handleEditorChange: an edit also empties the output
handleEditorChangeClearsLog(value) ==
    /\ code' = value
    /\ error' = NoError
    /\ consoleOutput' = <<>>
    /\ last' = Step("edit", 0, NoEvent, {})
    /\ UNCHANGED <<runs, hostQueue>>

\* the editor's onChange callback
handleEditorChange(value) ==
    /\ code' = value
    /\ error' = NoError
    /\ last' = Step("edit", 0, NoEvent, {})
    /\ UNCHANGED <<consoleOutput, runs, hostQueue>>

\* mutation of runCode: the output of the previous run is kept
runCodeKeepsLog ==
    /\ Len(runs) < MaxRuns
    /\ error' = NoError
    /\ runs' = Append([r \in RunIds |->
                          IF runs[r].inDom THEN Detach(runs[r]) ELSE runs[r]],
                      NewRun(code, consoleOutput))
    /\ last' = Step("run", Len(runs) + 1, NoEvent, {})
    /\ UNCHANGED <<code, consoleOutput, hostQueue>>

\* the Run button: clears output and error, removes the iframe of an earlier
\* run that is still attached, attaches a new iframe, adds the two listeners
\* and arms the two timers
runCode ==
    /\ Len(runs) < MaxRuns
    /\ consoleOutput' = <<>>
    /\ error' = NoError
    /\ runs' = Append([r \in RunIds |->
                          IF runs[r].inDom THEN Detach(runs[r]) ELSE runs[r]],
                      NewRun(code, consoleOutput))
    /\ last' = Step("run", Len(runs) + 1, NoEvent, {})
    /\ UNCHANGED <<code, hostQueue>>

\* mutation of resetCode: the text of the editor is kept
resetCodeKeepsText ==
    /\ error' = NoError
    /\ consoleOutput' = <<>>
    /\ last' = Step("reset", 0, NoEvent, {})
    /\ UNCHANGED <<code, runs, hostQueue>>

\* the Reset button
resetCode ==
    /\ code' = DEFAULT_CODE
    /\ error' = NoError
    /\ consoleOutput' = <<>>
    /\ last' = Step("reset", 0, NoEvent, {})
    /\ UNCHANGED <<runs, hostQueue>>

\* mutation of clearConsole: the banner is kept
clearConsoleKeepsBanner ==
    /\ consoleOutput' = <<>>
    /\ last' = Step("clear", 0, NoEvent, {})
    /\ UNCHANGED <<code, error, runs, hostQueue>>

\* the Clear Output button
clearConsole ==
    /\ consoleOutput' = <<>>
    /\ error' = NoError
    /\ last' = Step("clear", 0, NoEvent, {})
    /\ UNCHANGED <<code, runs, hostQueue>>

\* timers of equal delay fire in the order they were set, and a timer set
\* earlier with a smaller delay fires first: the fallback of run r fires
\* after the fallbacks of the earlier runs
FallbackDue(r) ==
    /\ runs[r].fallback
    /\ \A q \in 1..(r - 1) : ~runs[q].fallback

\* mutation of TeardownDue: only the newest run is cleaned up
TeardownDueOnlyLatest(r) ==
    /\ runs[r].teardown
    /\ ~runs[r].fallback
    /\ r = Len(runs)

\* the teardown of run r fires after its fallback and after the teardowns of
\* the earlier runs
TeardownDue(r) ==
    /\ runs[r].teardown
    /\ ~runs[r].fallback
    /\ \A q \in 1..(r - 1) : ~runs[q].teardown

\* setTimeout(..., 30): if (!ready) sendCodeToIframe()
Fallback(r) ==
    /\ r \in RunIds
    /\ FallbackDue(r)
    /\ LET s0 == [HostState EXCEPT !.runs[r].fallback = FALSE,
                                   !.runs[r].logBefore = <<>>]
           s1 == IF ~runs[r].ready THEN sendCodeToIframe(s0, r) ELSE s0
       IN /\ runs' = s1.runs
          /\ error' = s1.err
          /\ consoleOutput' = s1.out
          /\ last' = Step("fallback", r, NoEvent, s1.txfail)
    /\ UNCHANGED <<code, hostQueue>>

\* mutation of Teardown: messageHandler stays a listener of the window
TeardownKeepsListener(r) ==
    /\ r \in RunIds
    /\ TeardownDue(r)
    /\ runs' = [runs EXCEPT ![r] =
                   [Detach(@) EXCEPT !.teardown = FALSE, !.readyL = FALSE]]
    /\ last' = Step("teardown", r, NoEvent, {})
    /\ UNCHANGED <<code, consoleOutput, error, hostQueue>>

\* setTimeout(..., 200): remove the iframe and both listeners
Teardown(r) ==
    /\ r \in RunIds
    /\ TeardownDue(r)
    /\ runs' = [runs EXCEPT ![r] =
                   [Detach(@) EXCEPT !.teardown = FALSE,
                                     !.msgL = FALSE, !.readyL = FALSE]]
    /\ last' = Step("teardown", r, NoEvent, {})
    /\ UNCHANGED <<code, consoleOutput, error, hostQueue>>

\* the event loop dispatches the oldest message event of the host window
HostDispatch ==
    /\ hostQueue # <<>>
    /\ LET ev == Head(hostQueue)
           s1 == RunListeners(HostState, 1, ev)
       IN /\ runs' = s1.runs
          /\ consoleOutput' = s1.out
          /\ error' = s1.err
          /\ last' = Step("dispatch", 0, ev, s1.txfail)
    /\ hostQueue' = Tail(hostQueue)
    /\ UNCHANGED <<code>>

(***************************************************************************)
(* The runner iframes and the other windows                                *)
(***************************************************************************)
\* post the data to the host window, as events from window src
PostToHost(datas, origin, src) ==
    hostQueue' = hostQueue \o MkEvents(datas, origin, src)

\* the srcdoc document of run r's iframe loads and its script runs
RunnerLoad(r) ==
    /\ r \in RunIds
    /\ runs[r].inDom
    /\ ~runs[r].loaded
    /\ runs' = [runs EXCEPT ![r].loaded = TRUE]
    /\ PostToHost(RunnerReady, RunnerOrigin, r)
    /\ last' = Step("env", r, NoEvent, {})
    /\ UNCHANGED <<code, consoleOutput, error>>

\* the runner's event loop dispatches the oldest message of its window
RunnerDispatch(r) ==
    /\ r \in RunIds
    /\ runs[r].inDom
    /\ runs[r].loaded
    /\ runs[r].inbox # <<>>
    /\ LET ev == Head(runs[r].inbox)
       IN /\ runs' = [runs EXCEPT ![r].inbox = Tail(@)]
          /\ PostToHost(RunnerListener(ev), RunnerOrigin, r)
    /\ last' = Step("env", r, NoEvent, {})
    /\ UNCHANGED <<code, consoleOutput, error>>

\* the bound on the messages of other windows: the log of the newest run
\* grows to MaxLog entries at most
WithinLogBound(inp) ==
    IF /\ runs # <<>>
       /\ runs[Len(runs)].msgL
       /\ MessageHandlerAccepts(inp)
       /\ inp.data.hasArgs
    THEN Len(runs[Len(runs)].capturedLogs) < MaxLog
    ELSE TRUE

\* another window posts a message to the host window
EnvPost(inp) ==
    /\ Len(hostQueue) < MaxQueue
    /\ WithinLogBound(inp)
    /\ PostToHost(<<inp.data>>, inp.origin, inp.src)
    /\ last' = Step("env", 0, NoEvent, {})
    /\ UNCHANGED <<code, consoleOutput, error, runs>>

\* another window that holds a reference to the runner window (an opener or
\* an embedder of the page) posts it a run message with target origin "*"
EnvPostToRunner(r, origin, payload) ==
    /\ r \in RunIds
    /\ Len(runs[r].inbox) < MaxInbox
    /\ runs[r].inDom
    /\ runs[r].loaded
    /\ runs' = [runs EXCEPT ![r].inbox =
                   Append(@, [origin |-> origin,
                              data |-> RunData("jsplayground", "run", payload)])]
    /\ last' = Step("env", r, NoEvent, {})
    /\ UNCHANGED <<code, consoleOutput, error, hostQueue>>

\* the steps of the system when the other windows post the messages of
\* inputs to the host window
NextWith(inputs) ==
    \/ \E value \in Texts : handleEditorChange(value)
    \/ runCode
    \/ resetCode
    \/ clearConsole
    \/ \E r \in 1..MaxRuns : Fallback(r)
    \/ \E r \in 1..MaxRuns : Teardown(r)
    \/ HostDispatch
    \/ \E r \in 1..MaxRuns : RunnerLoad(r)
    \/ \E r \in 1..MaxRuns : RunnerDispatch(r)
    \/ \E inp \in inputs : EnvPost(inp)
    \/ \E r \in 1..MaxRuns, origin \in RunnerInputOrigins, payload \in RunnerPayloads :
          EnvPostToRunner(r, origin, payload)

Next == NextWith(HostInputs)

Spec == Init /\ [][Next]_vars

\* the messages of HostInputs that the liveness specification draws from: a
\* result message, a ready message and a message of another origin
TimerInputs ==
    { inp \in HostInputs :
        \/ inp.origin = ForeignOrigin
        \/ inp.origin = HostOrigin /\ inp.data.source = "jsplayground"
              /\ inp.data.type \in {"error", "ready"} }

FairNext == NextWith(TimerInputs)

\* the event loop runs every timer that is due
FairSpec ==
    /\ Init /\ [][FairNext]_vars
    /\ \A r \in 1..MaxRuns : WF_vars(Fallback(r)) /\ WF_vars(Teardown(r))

\* the well-formed result messages of HostInputs that come from the host's
\* origin, and an alert: the ones messageHandler appends
ResultInputs ==
    { inp \in HostInputs :
        MessageHandlerAccepts(inp) /\ inp.data.hasArgs }
    \cup { [origin |-> HostOrigin, src |-> EnvWindow,
            data |-> Data("jsplayground", "alert", TRUE, << <<"hi">>, <<"there">> >>)] }

\* the bound on the messages of other windows in LogSpec: the log of the
\* newest run grows to MaxLongLog entries at most
WithinLongLogBound ==
    IF runs # <<>> /\ runs[Len(runs)].msgL
    THEN Len(runs[Len(runs)].capturedLogs) < MaxLongLog
    ELSE TRUE

\* another window posts a result message to the host window
EnvPostResult(inp) ==
    /\ Len(hostQueue) < MaxQueue
    /\ WithinLongLogBound
    /\ PostToHost(<<inp.data>>, inp.origin, inp.src)
    /\ last' = Step("env", 0, NoEvent, {})
    /\ UNCHANGED <<code, consoleOutput, error, runs>>

\* the steps of the system when the other windows post only result
\* messages to the host window, up to MaxLongLog per run, and none to the
\* runners: the queue of a runner stays empty (the host's transmissions
\* are not delivered), so RunnerDispatch has no step to take
LogNext ==
    \/ \E value \in Texts : handleEditorChange(value)
    \/ runCode
    \/ resetCode
    \/ clearConsole
    \/ \E r \in 1..MaxRuns : Fallback(r)
    \/ \E r \in 1..MaxRuns : Teardown(r)
    \/ HostDispatch
    \/ \E r \in 1..MaxRuns : RunnerLoad(r)
    \/ \E inp \in ResultInputs : EnvPostResult(inp)

LogSpec == Init /\ [][LogNext]_vars

(***************************************************************************)
(* Claims                                                                  *)
(***************************************************************************)
Range(seq) == {seq[i] : i \in 1..Len(seq)}

\* the entries of a log without their history fields
Shown(log) == [i \in 1..Len(log) |-> [type |-> log[i].type, value |-> log[i].value]]

\* the entries run r's result listener appended that came from run r's runner
RunnerEntries(r) ==
    Shown(SelectSeq(runs[r].capturedLogs, LAMBDA e : e.src = r))

\* run r has been torn down: its timer has fired, its iframe is detached and
\* neither of its listeners is attached
TornDown(r) ==
    /\ r \in RunIds
    /\ ~runs[r].teardown
    /\ ~runs[r].inDom
    /\ ~runs[r].msgL
    /\ ~runs[r].readyL

NoFault(text) == \A i \in 1..Len(text) : text[i].op # "throw"

\* the Log events of a text that makes only console.log calls
LogCalls(text) ==
    [i \in 1..Len(text) |-> [type |-> "log", value |-> Join(text[i].args)]]

\* C1: a run of a source text that calls console.log N times and raises no
\* fault yields exactly N Log-kind events, in call order: when the run is
\* over, the entries its result listener got from its runner are the text's
\* log calls, in order.
C1_RunYieldsItsLogs ==
    \A r \in RunIds :
        (TornDown(r)
           /\ \A i \in 1..Len(runs[r].payload) : runs[r].payload[i].op = "log")
        => RunnerEntries(r) = LogCalls(runs[r].payload)

\* C2: every entry of the output log was emitted by the runner of the newest
\* run, never by an earlier runner or another sender.
C2_LogOnlyFromOwnRunner ==
    \A e \in Range(consoleOutput) : e.src = Len(runs)

\* C3: a message whose origin is not the host's origin is never appended:
\* every entry of the output log, and of every run's captured log, comes from
\* an event of the host's origin.
C3_ForeignOriginNeverLogged ==
    /\ \A e \in Range(consoleOutput) : e.origin = HostOrigin
    /\ \A r \in RunIds : \A e \in Range(runs[r].capturedLogs) : e.origin = HostOrigin

\* a forged log message of another origin has been dispatched while a result
\* listener was attached
C3_ForgedLogDispatched ==
    /\ last.op = "dispatch"
    /\ last.ev.origin = ForeignOrigin
    /\ last.ev.data.type = "log"
    /\ last.ev.data.hasArgs
    /\ \E r \in RunIds : runs[r].msgL

\* a well-formed result message: an object tagged "jsplayground" of kind
\* log, error or alert whose args is an array
WellFormedResult(ev) ==
    /\ ev.data.obj
    /\ ev.data.source = "jsplayground"
    /\ ev.data.type \in {"log", "error", "alert"}
    /\ ev.data.hasArgs

\* C4: the dispatch of a message that is not a well-formed result message
\* (not an object, another tag, a kind outside log/error/alert - ready
\* included - or args missing) changes neither the output log, nor any run's
\* captured log, nor the error banner.
C4_InvalidDiscarded ==
    [][(last'.op = "dispatch" /\ ~WellFormedResult(last'.ev))
          => /\ consoleOutput' = consoleOutput
             /\ error' = error
             /\ \A r \in RunIds : runs'[r].capturedLogs = runs[r].capturedLogs]_vars

\* a log message without args has been dispatched to an attached result
\* listener while the output log was not empty
C4_ArglessLogDispatched ==
    /\ last.op = "dispatch"
    /\ last.ev.origin = HostOrigin
    /\ last.ev.data.source = "jsplayground"
    /\ last.ev.data.type = "log"
    /\ ~last.ev.data.hasArgs
    /\ \E r \in RunIds : runs[r].msgL
    /\ consoleOutput # <<>>

\* the fault of the first throw statement of a text
RECURSIVE FirstFault(_)
FirstFault(text) ==
    IF Head(text).op = "throw" THEN Head(text).fault ELSE FirstFault(Tail(text))

\* C5: a fault thrown by the executed text yields exactly one Error-kind
\* event, whose text is the fault's string form, and nothing after it: when
\* the run is over, the entries from its runner hold one error entry, with
\* that text, as their last entry.
C5_FaultYieldsOneError ==
    \A r \in RunIds :
        (TornDown(r) /\ ~NoFault(runs[r].payload))
        => LET got == RunnerEntries(r)
               errs == SelectSeq(got, LAMBDA e : e.type = "error")
           IN /\ Len(errs) = 1
              /\ errs[1].value = ErrToString(FirstFault(runs[r].payload))
              /\ got[Len(got)] = errs[1]

C7_EveryRunTornDown ==
    \A r \in 1..MaxRuns : (r \in RunIds) ~> TornDown(r)

\* the first run is torn down while a later run is still live
C7_SupersededRunTornDown ==
    /\ Len(runs) >= 2
    /\ TornDown(1)
    /\ runs[2].teardown
    /\ runs[2].msgL

AllTornDown == \A r \in RunIds : TornDown(r)

\* the teardown timer of run r has fired
TeardownRan(r) == r \in RunIds /\ ~runs[r].teardown

AllTeardownsRan == \A r \in RunIds : TeardownRan(r)

\* C8: once the teardown of a run has completed, no step appends to its
\* captured log or transmits on its behalf, and while every run's teardown
\* has completed only runCode, resetCode and clearConsole change the output
\* log.
C8_NothingAfterTeardown ==
    [][/\ \A r \in RunIds :
             TeardownRan(r)
             => /\ runs'[r].capturedLogs = runs[r].capturedLogs
                /\ runs'[r].sends = runs[r].sends
                /\ runs'[r].inbox = runs[r].inbox
       /\ (runs # <<>> /\ AllTeardownsRan
              /\ last'.op \notin {"run", "reset", "clear"})
             => consoleOutput' = consoleOutput]_vars

\* a well-formed result message of the host's origin has been dispatched
\* after every run was torn down, the output log being non-empty
C8_ResultAfterTeardown ==
    /\ last.op = "dispatch"
    /\ last.ev.origin = HostOrigin
    /\ WellFormedResult(last.ev)
    /\ runs # <<>>
    /\ AllTornDown
    /\ consoleOutput # <<>>

\* C9: no dispatch of a message changes the error banner, and the banner
\* becomes a new non-empty string only in a step of a fallback timer whose
\* transmission threw.
C9_BannerOnlyFromTransmission ==
    [][/\ last'.op = "dispatch" => error' = error
       /\ (error' # error /\ error' # NoError)
             => /\ last'.op = "fallback"
                /\ last'.run \in last'.txfail
                /\ error' = FailMessage(TypeErrorNull)]_vars

\* the banner shows a failed transmission while the output log holds an
\* Error-kind entry
C9_BannerBesideErrorEntry ==
    /\ error # NoError
    /\ \E e \in Range(consoleOutput) : e.type = "error"

C11_ResetRestoresDefault ==
    last.op = "reset"
        => /\ code = DEFAULT_CODE
           /\ consoleOutput = <<>>
           /\ error = NoError

\* the Reset button has been pressed while a run of an edited text was
\* live and had captured output
C11_ResetAfterEditedRun ==
    /\ last.op = "reset"
    /\ \E r \in RunIds :
          /\ runs[r].payload # DEFAULT_CODE
          /\ runs[r].msgL
          /\ runs[r].capturedLogs # <<>>

\* C12: handleEditorChange(value) replaces the text by value and clears the
\* banner; it leaves the output log, the closures of the runs started so
\* far (payload, listeners, timers) and the queued messages unchanged.
C12_SetSourceFrame ==
    [][/\ \A value \in Texts : handleEditorChange(value) => code' = value
       /\ last'.op = "edit"
             => /\ error' = NoError
                /\ consoleOutput' = consoleOutput
                /\ runs' = runs
                /\ hostQueue' = hostQueue]_vars

\* the text has been edited while the output log was not empty and a run of
\* another text was waiting for its fallback timer
C12_EditDuringRun ==
    /\ last.op = "edit"
    /\ consoleOutput # <<>>
    /\ \E r \in RunIds : runs[r].fallback /\ runs[r].payload # code

\* C13: clearConsole leaves the output log empty, the banner cleared and
\* the text unchanged, and is idempotent: a second call right after the
\* first changes nothing.
C13_ClearIdempotent ==
    [][/\ last'.op = "clear"
             => /\ consoleOutput' = <<>>
                /\ error' = NoError
                /\ code' = code
                /\ runs' = runs
       /\ (last.op = "clear" /\ last'.op = "clear")
             => UNCHANGED <<code, consoleOutput, error, runs, hostQueue>>]_vars

\* Clear Output has been pressed while a live run had captured output and
\* the text was not the default
C13_ClearDuringRun ==
    /\ last.op = "clear"
    /\ code # DEFAULT_CODE
    /\ \E r \in RunIds : runs[r].msgL /\ runs[r].capturedLogs # <<>>

\* C14: each run transmits its payload to its runner exactly once: when the
\* run is over, exactly one run message of the host has reached the queue
\* of its runner.
C14_PayloadReceivedOnce ==
    \A r \in RunIds : TornDown(r) => runs[r].delivered = 1

\* C17: the payload a run transmits is the text as it was when runCode was
\* called: runCode captures the current text, no later step changes the
\* payload of a run, and every transmission of a run is given that payload.
C17_PayloadIsSnapshot ==
    [][/\ last'.op = "run" => runs'[Len(runs')].payload = code
       /\ \A r \in RunIds :
             /\ runs'[r].payload = runs[r].payload
             /\ \A i \in 1..Len(runs'[r].sent) :
                   runs'[r].sent[i] = runs[r].payload]_vars

\* the fallback timer of a run has just transmitted a payload that is not
\* the text of the editor any more: the text was changed after runCode and
\* before the transmission
C17_SentAfterEdit ==
    /\ last.op = "fallback"
    /\ runs[last.run].sent # <<>>
    /\ runs[last.run].sent[1] # code

\* C19: a superseded run never sets the banner of a later run: once a later
\* run has started, a step sets the banner to a new error only for a failed
\* transmission of the newest run.
C19_BannerOnlyFromNewestRun ==
    [][(error' # error /\ error' # NoError)
          => last'.txfail = {Len(runs')}]_vars

IsPrefix(a, b) == Len(a) <= Len(b) /\ SubSeq(b, 1, Len(a)) = a

\* the result listener of the newest run is attached
NewestListens == runs # <<>> /\ runs[Len(runs)].msgL

\* a step dispatches a well-formed result message of the host's origin while
\* the result listener of the newest run is attached
ResultDispatched ==
    /\ NewestListens
    /\ last'.op = "dispatch"
    /\ last'.ev.origin = HostOrigin
    /\ WellFormedResult(last'.ev)

\* C15: within a run the output log is append-only and ordered by receipt:
\* a step other than runCode, resetCode and clearConsole leaves the log a
\* prefix of the new log, and while the log shows what the newest run has
\* captured, the dispatch of a validated message appends exactly one entry
\* for it at the end.
C15_AppendOnly ==
    [][last'.op \notin {"run", "reset", "clear"}
          => /\ IsPrefix(consoleOutput, consoleOutput')
             /\ (ResultDispatched /\ consoleOutput = runs[Len(runs)].capturedLogs)
                   => consoleOutput' =
                         Append(consoleOutput, LogEntry(last'.ev, Len(runs)))]_vars

\* a second message of another kind has been appended to the output log
\* while the listeners of two runs were attached
C15_SecondEntryAppended ==
    /\ last.op = "dispatch"
    /\ Len(runs) = 2
    /\ runs[1].msgL
    /\ runs[2].msgL
    /\ Len(consoleOutput) = 2
    /\ consoleOutput = runs[2].capturedLogs
    /\ consoleOutput[1].type # consoleOutput[2].type

\* the strings of args with a single space between neighbours
RECURSIVE SpaceSeparated(_)
SpaceSeparated(args) ==
    IF args = <<>> THEN <<>>
    ELSE IF Len(args) = 1 THEN args[1]
    ELSE SpaceSeparated(SubSeq(args, 1, Len(args) - 1))
            \o <<" ">> \o args[Len(args)]

\* C16: the dispatch of a validated log, error or alert message produces
\* exactly one entry: every attached result listener captures one more
\* entry, and the last entry of the output log has the kind of the message
\* and, as its text, the message's args separated by single spaces.
C16_OneEntryPerMessage ==
    [][ResultDispatched
          => /\ \A r \in RunIds :
                   Len(runs'[r].capturedLogs) =
                      Len(runs[r].capturedLogs) + (IF runs[r].msgL THEN 1 ELSE 0)
             /\ Len(consoleOutput') = Len(runs[Len(runs)].capturedLogs) + 1
             /\ Shown(consoleOutput')[Len(consoleOutput')] =
                   [type |-> last'.ev.data.type,
                    value |-> SpaceSeparated(last'.ev.data.args)]]_vars

\* an alert with two arguments has been dispatched and is the second entry
\* of the output log
C16_AlertJoined ==
    /\ last.op = "dispatch"
    /\ last.ev.data.type = "alert"
    /\ Len(last.ev.data.args) = 2
    /\ Len(consoleOutput) = 2
    /\ Shown(consoleOutput)[2] =
          [type |-> "alert", value |-> <<"hi", " ", "there">>]

\* C18: after clearConsole or resetCode during a live run the entries
\* received before it never reappear: the dispatch that follows the clear
\* leaves in the output log at most the entry of the message it dispatched.
C18_ClearedNeverReappear ==
    [][(last.op \in {"clear", "reset"} /\ last'.op = "dispatch")
          => \/ consoleOutput' = <<>>
             \/ consoleOutput' = <<LogEntry(last'.ev, Len(runs))>>]_vars

====
